---- MODULE Spec2Model ----
(***************************************************************************)
(* Model of the Snyk Code `test` workflow: codePlugin.test (the            *)
(* orchestrator and its error classifier) and the report uploader          *)
(* (uploadCodeReport / uploadResults).                                     *)
(*                                                                         *)
(* One behaviour is one invocation of test().  The function is split at    *)
(* its suspension points (settings fetch, analysis request, and the three   *)
(* nested awaits of the report upload: makeRequest inside uploadResults,    *)
(* uploadResults inside uploadCodeReport, uploadCodeReport inside test);    *)
(* each action is one turn: the synchronous code that runs when an awaited  *)
(* promise settles, up to the next await or to the end.                     *)
(*                                                                         *)
(* JavaScript values: `undefined` and `null` are the strings UNDEF and     *)
(* NULL; numeric error codes are written as decimal numerals ("401") so    *)
(* that a code field can also hold 'VULNS'; the HTTP status of the upload  *)
(* response is an integer because the code compares it with < and >.       *)
(***************************************************************************)
EXTENDS Integers, Sequences, FiniteSets

VARIABLES
    pc,                 \* "settings" | "analysis" | "makeRequest" | "uploadResults"
                        \* | "uploadCodeReport" | "classify" | "done": the promise awaited
    options,            \* the RunOptions bag passed to test()
    sastSettings,       \* what getSastSettings resolved to
    analysisResult,     \* what getCodeAnalysisAndParseResults resolved to
    sarifTypedResult,   \* the ResultLog held by test() (mutated in place)
    numOfIssues,        \* the issue count computed at line 47
    request,            \* the upload request handed to makeRequest
    response,           \* the upload response makeRequest resolved to
    settled,            \* how the promise named by pc settled, until its awaiter resumes
    calls,              \* collaborators invoked so far in this invocation
    caught,             \* the value that entered the catch block
    outcome             \* how test() ended

vars == <<pc, options, sastSettings, analysisResult, sarifTypedResult,
          numOfIssues, request, response, settled, calls, caught, outcome>>

-----------------------------------------------------------------------------
(* Bounds *)

MaxFindings == 2
MaxNameLen == 1
MaxRuns == 2

-----------------------------------------------------------------------------
(* JavaScript values *)

UNDEF == "<undefined>"
NULL == "<null>"

\* JavaScript truthiness of a string-or-absent value
Truthy(v) == v \notin {UNDEF, NULL, ""}

\* a ?? b
Nullish(a, b) == IF a \in {UNDEF, NULL} THEN b ELSE a

Chars == {" ", "a"}
WhiteSpace == {" "}

RECURSIVE TrimStart(_)
TrimStart(s) ==
    IF s # <<>> /\ Head(s) \in WhiteSpace THEN TrimStart(Tail(s)) ELSE s

RECURSIVE TrimEnd(_)
TrimEnd(s) ==
    IF s # <<>> /\ s[Len(s)] \in WhiteSpace
    THEN TrimEnd(SubSeq(s, 1, Len(s) - 1)) ELSE s

\* String.prototype.trim
Trim(s) == TrimEnd(TrimStart(s))

RECURSIVE SeqsUpTo(_, _)
SeqsUpTo(S, n) ==
    IF n = 0 THEN {<<>>}
    ELSE LET shorter == SeqsUpTo(S, n - 1)
         IN  shorter \cup {Append(s, x) : s \in shorter, x \in S}

\* an optional string kept as a sequence of characters
NoName == [defined |-> FALSE, chars |-> <<>>]
Name(s) == [defined |-> TRUE, chars |-> s]

-----------------------------------------------------------------------------
(* The ResultLog *)

Finding(md) == [message |-> [text |-> "finding", markdown |-> md]]
Findings == {Finding(md) : md \in {UNDEF, "**finding**"}}

Runs ==
    {[hasResults |-> FALSE, results |-> <<>>]}
    \cup {[hasResults |-> TRUE, results |-> r] : r \in SeqsUpTo(Findings, MaxFindings)}

\* a run after the first one: test() reads and edits runs[0] only, so what a
\* later run holds is carried through untouched; one finding with markdown
LaterRun == [hasResults |-> TRUE, results |-> <<Finding("**finding**")>>]

\* the first runs that are followed by later runs
LeadingRuns == {r \in Runs : Len(r.results) <= 1}

\* a ResultLog: no runs field, zero runs, one run, or MaxRuns runs (a first
\* run followed by later runs)
Logs ==
    {[hasRuns |-> FALSE, runs |-> <<>>], [hasRuns |-> TRUE, runs |-> <<>>]}
    \cup {[hasRuns |-> TRUE, runs |-> <<r>>] : r \in Runs}
    \cup {[hasRuns |-> TRUE,
           runs |-> <<r>> \o [i \in 1..(MaxRuns - 1) |-> LaterRun]] :
              r \in LeadingRuns}

NoLog == [hasRuns |-> FALSE, runs |-> <<>>]

\* what getCodeAnalysisAndParseResults resolved to: nothing yet, null, or a log
NoResult == [kind |-> "none", log |-> NoLog]
NullResult == [kind |-> "null", log |-> NoLog]
LogResult(log) == [kind |-> "log", log |-> log]

-----------------------------------------------------------------------------
(* Strings produced by the output formatter and the serializer *)

Lit(s) == [kind |-> "lit", str |-> s, log |-> NoLog, org |-> UNDEF]
NoText == [kind |-> "undefined", str |-> "", log |-> NoLog, org |-> UNDEF]

TestPath == "/app"

\* getCodeDisplayedOutput(log, getMeta({...options, org}, path), getPrefix(path))
getCodeDisplayedOutput(log, org) ==
    [kind |-> "display", str |-> TestPath, log |-> log, org |-> org]

\* jsonStringifyLargeObject(log)
jsonStringifyLargeObject(log) ==
    [kind |-> "json", str |-> "", log |-> log, org |-> UNDEF]

\* getCodeReportDisplayedOutput(projectUrl)
getCodeReportDisplayedOutput(url) ==
    [kind |-> "report", str |-> url, log |-> NoLog, org |-> UNDEF]

-----------------------------------------------------------------------------
(* Thrown values *)

JSValue(type, cls, str, statusCode, statusText, apiName, code, message) ==
    [type |-> type, cls |-> cls, str |-> str,
     statusCode |-> statusCode, statusText |-> statusText, apiName |-> apiName,
     code |-> code, message |-> message,
     sarifStringifiedResults |-> NoText, jsonStringifiedResults |-> NoText]

NoValue == JSValue("none", "", "", UNDEF, UNDEF, UNDEF, UNDEF, NoText)
JSNull == JSValue("null", "", "", UNDEF, UNDEF, UNDEF, UNDEF, NoText)
JSUndefined == JSValue("undefined", "", "", UNDEF, UNDEF, UNDEF, UNDEF, NoText)
JSString(s) == JSValue("string", "", s, UNDEF, UNDEF, UNDEF, UNDEF, NoText)

\* new Error(message) and its subclasses
ErrorOf(cls, message, code) ==
    JSValue("Error", cls, "", UNDEF, UNDEF, UNDEF, code, message)

NoSupportedSastFiles == ErrorOf("NoSupportedSastFiles", Lit("no supported sast files"), UNDEF)
FailedToRunTestError(message, code) == ErrorOf("FailedToRunTestError", message, code)
AuthFailedError == ErrorOf("AuthFailedError", Lit("authentication failed"), UNDEF)
ValidationError(message) == ErrorOf("ValidationError", message, UNDEF)
TypeError(what) == ErrorOf("TypeError", Lit(what), UNDEF)

StatusCodes == {UNDEF, "401", "403", "500"}

\* every object or Error shape over the fields the classifier looks at
ShapedValues ==
    {JSValue(t, IF t = "Error" THEN "Error" ELSE "", "", sc, st, api, c, m) :
        t \in {"object", "Error"}, sc \in StatusCodes, st \in {UNDEF, "status text"},
        api \in {UNDEF, "api"}, c \in StatusCodes, m \in {NoText, Lit("message")}}

AllThrown == {JSNull, JSUndefined, JSString("boom")} \cup ShapedValues

\* what a collaborator of test() throws in the workflow
CollaboratorThrown ==
    {JSNull,
     JSString("boom"),
     JSValue("object", "", "", "401", "status text", "api", UNDEF, NoText),
     JSValue("object", "", "", UNDEF, UNDEF, UNDEF, "403", Lit("message")),
     ErrorOf("Error", Lit("message"), "401")}

-----------------------------------------------------------------------------
(* Error classification: the catch block of codePlugin.test *)

HasOwnProperty(error, field) ==
    /\ error.type \in {"object", "Error"}
    /\ CASE field = "statusCode" -> error.statusCode # UNDEF
         [] field = "statusText" -> error.statusText # UNDEF
         [] field = "apiName" -> error.apiName # UNDEF
         [] OTHER -> FALSE

isCodeClientError(error) ==
    /\ HasOwnProperty(error, "statusCode")
    /\ HasOwnProperty(error, "statusText")
    /\ HasOwnProperty(error, "apiName")

isUnauthorizedError(error) ==
    \/ error.statusCode = "401"
    \/ error.statusCode = "403"
    \/ error.code = "403"
    \/ error.code = "401"

\* String(error), the message of `new Error(error)`
StringOf(error) ==
    IF error.type = "string" THEN error.str ELSE "[object Object]"

\* reading a property of null or undefined throws a TypeError
ThrowsOnPropertyRead(error) == error.type \in {"null", "undefined"}

\* the error the catch block throws for the value it caught
Classify(error) ==
    IF ThrowsOnPropertyRead(error)
    THEN TypeError("Cannot read property 'hasOwnProperty'")
    ELSE IF isCodeClientError(error)
    THEN FailedToRunTestError(
            IF isUnauthorizedError(error)
            THEN Lit("Unauthorized: Failed to run 'code test'")
            ELSE Lit("Failed to run 'code test'"),
            error.statusCode)
    ELSE IF error.type = "Error"
    THEN error
    ELSE IF isUnauthorizedError(error)
    THEN FailedToRunTestError(error.message, error.code)
    ELSE ErrorOf("Error", Lit(StringOf(error)), UNDEF)

-----------------------------------------------------------------------------
(* Helpers of codePlugin.test *)

\* sarifTypedResult.runs?.[0].results : reading .results of a missing first run
FirstRunThrows(log) == log.hasRuns /\ Len(log.runs) = 0

\* variant: the count falls back to 1 instead of 0
NumOfIssues_DefaultOne(log) ==
    IF ~log.hasRuns THEN 1
    ELSE IF ~log.runs[1].hasResults THEN 1
    ELSE IF Len(log.runs[1].results) = 0 THEN 1
    ELSE Len(log.runs[1].results)

\* sarifTypedResult.runs?.[0].results?.length || 0
NumOfIssues(log) ==
    IF ~log.hasRuns THEN 0
    ELSE IF ~log.runs[1].hasResults THEN 0
    ELSE Len(log.runs[1].results)

\* variant: the resolved settings win over the caller
NewOrg_SettingsFirst(opts, settings) ==
    IF Truthy(settings.org) THEN settings.org ELSE opts.org

\* let newOrg = options.org; if (!newOrg && sastSettings.org) newOrg = sastSettings.org
NewOrg(opts, settings) ==
    IF ~Truthy(opts.org) /\ Truthy(settings.org) THEN settings.org ELSE opts.org

\* variant: the project name is not trimmed
ProjectMissing_NoTrim(opts) ==
    /\ ~Truthy(opts.projectId)
    /\ \/ ~opts.projectName.defined
       \/ opts.projectName.chars = <<>>

\* !projectId && (!projectName || projectName?.trim().length === 0)
ProjectMissing(opts) ==
    /\ ~Truthy(opts.projectId)
    /\ \/ ~opts.projectName.defined
       \/ opts.projectName.chars = <<>>
       \/ Len(Trim(opts.projectName.chars)) = 0

\* results.forEach(({ message }) => { delete message.markdown })
DeleteMarkdown(results) ==
    [i \in 1..Len(results) |->
        [results[i] EXCEPT !.message = [@ EXCEPT !.markdown = UNDEF]]]

\* sarifTypedResult.runs?.[0].results?.forEach(...)
StripMarkdown(log) ==
    IF ~log.hasRuns \/ ~log.runs[1].hasResults THEN log
    ELSE [log EXCEPT !.runs[1].results = DeleteMarkdown(@)]

\* variant: err.code is not set
throwIssuesError_NoCode(readableResult, sarifResult, jsonResult) ==
    [ErrorOf("Error", readableResult, UNDEF) EXCEPT
        !.sarifStringifiedResults = sarifResult,
        !.jsonStringifiedResults = jsonResult]

\* variant: the json payload is attached under the sarif condition
throwIssuesError_JsonFollowsSarif(readableResult, sarifResult, jsonResult) ==
    [ErrorOf("Error", readableResult, "VULNS") EXCEPT
        !.sarifStringifiedResults = sarifResult,
        !.jsonStringifiedResults =
            IF sarifResult.kind # "undefined" THEN jsonResult ELSE NoText]

throwIssuesError(readableResult, sarifResult, jsonResult) ==
    [ErrorOf("Error", readableResult, "VULNS") EXCEPT
        !.sarifStringifiedResults = sarifResult,
        !.jsonStringifiedResults = jsonResult]

\* sarifResult ? { readableResult, sarifResult } : { readableResult }
SuccessPayload(readableResult, sarifResult) ==
    [state |-> "resolved", readableResult |-> readableResult,
     sarifResult |-> IF sarifResult.kind # "undefined" THEN sarifResult ELSE NoText,
     error |-> NoValue]

Pending ==
    [state |-> "pending", readableResult |-> NoText,
     sarifResult |-> NoText, error |-> NoValue]

Rejected(err) ==
    [state |-> "rejected", readableResult |-> NoText,
     sarifResult |-> NoText, error |-> err]

-----------------------------------------------------------------------------
(* The report uploader *)

DefaultOrg == "org-from-config"
FallbackMessage == "An error occurred, please contact Snyk support"

NoRequest ==
    [sent |-> FALSE, argOrg |-> UNDEF, org |-> UNDEF, projectId |-> UNDEF,
     projectName |-> NoName, targetRef |-> UNDEF, results |-> NoLog]

\* the makeRequest call of uploadResults, for uploadCodeReport({org: newOrg ?? null, ...})
UploadRequest(newOrg, opts, log) ==
    [sent |-> TRUE,
     argOrg |-> Nullish(newOrg, NULL),
     org |-> Nullish(Nullish(newOrg, NULL), DefaultOrg),
     projectId |-> opts.projectId,
     projectName |-> opts.projectName,
     targetRef |-> IF opts.targetRef = UNDEF THEN "" ELSE opts.targetRef,
     results |-> log]

Statuses == {199, 200, 299, 300, 401, 403}
ServiceErrors == {UNDEF, NULL, "", "service error"}

Responses ==
    {[statusCode |-> s, error |-> UNDEF, projectUrl |-> "https://app/project"] :
        s \in Statuses}
    \cup {[statusCode |-> 500, error |-> e, projectUrl |-> UNDEF] :
        e \in ServiceErrors \ {UNDEF}}
    \cup {[statusCode |-> 401, error |-> "service error", projectUrl |-> UNDEF]}

NoResponse == [statusCode |-> 0, error |-> UNDEF, projectUrl |-> UNDEF]

\* a settled promise: rejected with an error, or fulfilled with the upload
\* output (of which only projectUrl is read) or with a display string
NotSettled == [threw |-> FALSE, error |-> NoValue, projectUrl |-> UNDEF, text |-> NoText]
Throws(error) == [threw |-> TRUE, error |-> error, projectUrl |-> UNDEF, text |-> NoText]
ReturnsUrl(url) == [threw |-> FALSE, error |-> NoValue, projectUrl |-> url, text |-> NoText]
ReturnsText(text) == [threw |-> FALSE, error |-> NoValue, projectUrl |-> UNDEF, text |-> text]

\* what makeRequest rejects with
MakeRequestThrown == {ErrorOf("Error", Lit("request failed"), UNDEF)}

\* variant: 401 is not told apart from the other failures
uploadResults_No401(res) ==
    IF res.statusCode < 200 \/ res.statusCode > 299
    THEN Throws(ValidationError(Lit(Nullish(res.error, FallbackMessage))))
    ELSE ReturnsUrl(res.projectUrl)

\* uploadResults after the response arrived: what it throws, or what it returns
uploadResults(res) ==
    IF res.statusCode = 401
    THEN Throws(AuthFailedError)
    ELSE IF res.statusCode < 200 \/ res.statusCode > 299
    THEN Throws(ValidationError(Lit(Nullish(res.error, FallbackMessage))))
    ELSE ReturnsUrl(res.projectUrl)

-----------------------------------------------------------------------------
(* The options bag and the initial state *)

OptionalStrings(v) == {UNDEF, v}

RunOptions ==
    [report : BOOLEAN,
     projectId : {UNDEF, "", "project-id"},
     projectName : {NoName} \cup {Name(s) : s \in SeqsUpTo(Chars, MaxNameLen)},
     targetRef : {UNDEF},   \* passed through to the request; absent gives the default ''
     org : {UNDEF, "", "org-from-caller"},
     noMarkdown : BOOLEAN,
     sarif : BOOLEAN,
     json : BOOLEAN,
     sarifFileOutput : OptionalStrings("out.sarif"),
     jsonFileOutput : OptionalStrings("out.json")]

\* test(paths, {})
NoOptions ==
    [report |-> FALSE, projectId |-> UNDEF, projectName |-> NoName,
     targetRef |-> UNDEF, org |-> UNDEF, noMarkdown |-> FALSE, sarif |-> FALSE,
     json |-> FALSE, sarifFileOutput |-> UNDEF, jsonFileOutput |-> UNDEF]

SettingsOrgs == OptionalStrings("org-from-settings")

\* test(paths, options) was called and awaits getSastSettings(options)
Init ==
    /\ pc = "settings"
    /\ options \in RunOptions
    /\ sastSettings = [org |-> UNDEF]
    /\ analysisResult = NoResult
    /\ sarifTypedResult = NoLog
    /\ numOfIssues = 0
    /\ request = NoRequest
    /\ response = NoResponse
    /\ settled = NotSettled
    /\ calls = {"getSastSettings"}
    /\ caught = NoValue
    /\ outcome = Pending

-----------------------------------------------------------------------------
(* codePlugin.test *)

\* catch (error) { ... throw err }
Catch(error) ==
    /\ caught' = error
    /\ outcome' = Rejected(Classify(error))
    /\ pc' = "done"

\* lines 99-111: the file outputs, the issue escalation and the success payload
Complete(readableResult, log, n, called) ==
    LET wantSarif == Truthy(options.sarifFileOutput)
        wantJson == Truthy(options.jsonFileOutput)
        sarifResult == IF wantSarif THEN jsonStringifyLargeObject(log) ELSE NoText
        jsonResult == IF wantJson THEN jsonStringifyLargeObject(log) ELSE NoText
    IN  /\ calls' = called \cup
                (IF wantSarif \/ wantJson THEN {"jsonStringifyLargeObject"} ELSE {})
        /\ IF n > 0
           THEN Catch(throwIssuesError(readableResult, sarifResult, jsonResult))
           ELSE /\ outcome' = SuccessPayload(readableResult, sarifResult)
                /\ pc' = "done"
                /\ UNCHANGED caught

\* getSastSettings resolved
SettingsReturn(org) ==
    /\ pc = "settings"
    /\ sastSettings' = [org |-> org]
    /\ pc' = "analysis"
    /\ calls' = calls \cup {"getCodeAnalysisAndParseResults"}
    /\ UNCHANGED settled
    /\ UNCHANGED <<options, analysisResult, sarifTypedResult, numOfIssues,
                   request, response, caught, outcome>>

\* getSastSettings rejected
SettingsThrow(error) ==
    /\ pc = "settings"
    /\ Catch(error)
    /\ UNCHANGED settled
    /\ UNCHANGED <<options, sastSettings, analysisResult, sarifTypedResult,
                   numOfIssues, request, response, calls>>

\* variant: the null check is missing and line 47 reads .runs of null
AnalysisReturnNull_NoCheck ==
    /\ pc = "analysis"
    /\ analysisResult' = NullResult
    /\ Catch(TypeError("Cannot read property 'runs'"))
    /\ UNCHANGED settled
    /\ UNCHANGED <<options, sastSettings, sarifTypedResult, numOfIssues,
                   request, response, calls>>

\* getCodeAnalysisAndParseResults resolved to null
AnalysisReturnNull ==
    /\ pc = "analysis"
    /\ analysisResult' = NullResult
    /\ Catch(NoSupportedSastFiles)
    /\ UNCHANGED settled
    /\ UNCHANGED <<options, sastSettings, sarifTypedResult, numOfIssues,
                   request, response, calls>>

\* getCodeAnalysisAndParseResults resolved to a log whose first run is missing
AnalysisReturnNoFirstRun(log) ==
    /\ pc = "analysis"
    /\ FirstRunThrows(log)
    /\ analysisResult' = LogResult(log)
    /\ sarifTypedResult' = log
    /\ Catch(TypeError("Cannot read property 'results'"))
    /\ UNCHANGED settled
    /\ UNCHANGED <<options, sastSettings, numOfIssues, request, response, calls>>

\* report mode, lines 60-67: no project identifier
AnalysisReturnNoProject(log) ==
    /\ pc = "analysis"
    /\ ~FirstRunThrows(log)
    /\ options.report
    /\ ProjectMissing(options)
    /\ analysisResult' = LogResult(log)
    /\ sarifTypedResult' = log
    /\ numOfIssues' = NumOfIssues(log)
    /\ Catch(FailedToRunTestError(Lit("No project ID or name specified"), UNDEF))
    /\ UNCHANGED settled
    /\ UNCHANGED <<options, sastSettings, request, response, calls>>

\* report mode, lines 68-78: the upload request is sent
AnalysisReturnUpload(log) ==
    /\ pc = "analysis"
    /\ ~FirstRunThrows(log)
    /\ options.report
    /\ ~ProjectMissing(options)
    /\ analysisResult' = LogResult(log)
    /\ sarifTypedResult' = log
    /\ numOfIssues' = NumOfIssues(log)
    /\ request' = UploadRequest(NewOrg(options, sastSettings), options, log)
    /\ calls' = calls \cup {"uploadCodeReport", "uploadResults", "makeRequest"}
    /\ pc' = "makeRequest"
    /\ UNCHANGED settled
    /\ UNCHANGED <<options, sastSettings, response, caught, outcome>>

\* local mode, lines 79-111
AnalysisReturnLocal(log) ==
    /\ pc = "analysis"
    /\ ~FirstRunThrows(log)
    /\ ~options.report
    /\ LET n == NumOfIssues(log)
           newOrg == NewOrg(options, sastSettings)
           displayed == getCodeDisplayedOutput(log, newOrg)
           stripped == IF n > 0 /\ options.noMarkdown THEN StripMarkdown(log) ELSE log
           asJson == options.sarif \/ options.json
           readableResult ==
               IF asJson THEN jsonStringifyLargeObject(stripped) ELSE displayed
       IN  /\ analysisResult' = LogResult(log)
           /\ numOfIssues' = n
           /\ sarifTypedResult' = stripped
           /\ Complete(readableResult, stripped, n,
                       calls \cup {"getCodeDisplayedOutput"}
                             \cup (IF asJson THEN {"jsonStringifyLargeObject"} ELSE {}))
    /\ UNCHANGED settled
    /\ UNCHANGED <<options, sastSettings, request, response>>

\* getCodeAnalysisAndParseResults rejected
AnalysisThrow(error) ==
    /\ pc = "analysis"
    /\ Catch(error)
    /\ UNCHANGED settled
    /\ UNCHANGED <<options, sastSettings, analysisResult, sarifTypedResult,
                   numOfIssues, request, response, calls>>

\* report.ts:40-68: makeRequest resolved and uploadResults resumes; it throws
\* or returns, which settles the promise uploadCodeReport awaits
UploadResultsResumes(res) ==
    /\ pc = "makeRequest"
    /\ response' = res
    /\ settled' = uploadResults(res)
    /\ pc' = "uploadResults"
    /\ UNCHANGED <<options, sastSettings, analysisResult, sarifTypedResult,
                   numOfIssues, request, calls, caught, outcome>>

\* report.ts:40: makeRequest rejected; the rejection leaves uploadResults
UploadResultsRejects(error) ==
    /\ pc = "makeRequest"
    /\ settled' = Throws(error)
    /\ pc' = "uploadResults"
    /\ UNCHANGED <<options, sastSettings, analysisResult, sarifTypedResult,
                   numOfIssues, request, response, calls, caught, outcome>>

\* report.ts:22-24: uploadResults returned and uploadCodeReport resumes; it
\* renders the project URL and returns the display string
UploadCodeReportReturns ==
    /\ pc = "uploadResults"
    /\ ~settled.threw
    /\ settled' = ReturnsText(getCodeReportDisplayedOutput(settled.projectUrl))
    /\ calls' = calls \cup {"getCodeReportDisplayedOutput"}
    /\ pc' = "uploadCodeReport"
    /\ UNCHANGED <<options, sastSettings, analysisResult, sarifTypedResult,
                   numOfIssues, request, response, caught, outcome>>

\* report.ts:22: uploadResults rejected; the rejection leaves uploadCodeReport
UploadCodeReportRejects ==
    /\ pc = "uploadResults"
    /\ settled.threw
    /\ pc' = "uploadCodeReport"
    /\ UNCHANGED <<options, sastSettings, analysisResult, sarifTypedResult,
                   numOfIssues, request, response, settled, calls, caught, outcome>>

\* part_000:72-111: uploadCodeReport returned and test() resumes
TestResumesAfterUpload ==
    /\ pc = "uploadCodeReport"
    /\ ~settled.threw
    /\ settled' = NotSettled
    /\ Complete(settled.text, sarifTypedResult, numOfIssues, calls)
    /\ UNCHANGED <<options, sastSettings, analysisResult, sarifTypedResult,
                   numOfIssues, request, response>>

\* part_000:72, 112-136: uploadCodeReport rejected and the catch block runs
TestCatchesUploadError ==
    /\ pc = "uploadCodeReport"
    /\ settled.threw
    /\ settled' = NotSettled
    /\ Catch(settled.error)
    /\ UNCHANGED <<options, sastSettings, analysisResult, sarifTypedResult,
                   numOfIssues, request, response, calls>>

Next ==
    \/ \E org \in SettingsOrgs : SettingsReturn(org)
    \/ \E error \in CollaboratorThrown : SettingsThrow(error)
    \/ AnalysisReturnNull
    \/ \E log \in Logs : AnalysisReturnNoFirstRun(log)
    \/ \E log \in Logs : AnalysisReturnNoProject(log)
    \/ \E log \in Logs : AnalysisReturnUpload(log)
    \/ \E log \in Logs : AnalysisReturnLocal(log)
    \/ \E error \in CollaboratorThrown : AnalysisThrow(error)
    \/ \E res \in Responses : UploadResultsResumes(res)
    \/ \E error \in MakeRequestThrown : UploadResultsRejects(error)
    \/ UploadCodeReportReturns
    \/ UploadCodeReportRejects
    \/ TestResumesAfterUpload
    \/ TestCatchesUploadError

Spec == Init /\ [][Next]_vars

-----------------------------------------------------------------------------
(* The classifier on its own: any value may reach the catch block *)

InitClassify ==
    /\ pc = "classify"
    /\ options = NoOptions
    /\ sastSettings = [org |-> UNDEF]
    /\ analysisResult = NoResult
    /\ sarifTypedResult = NoLog
    /\ numOfIssues = 0
    /\ request = NoRequest
    /\ response = NoResponse
    /\ settled = NotSettled
    /\ calls = {}
    /\ caught \in AllThrown
    /\ outcome = Pending

ClassifyCaught ==
    /\ pc = "classify"
    /\ outcome' = Rejected(Classify(caught))
    /\ pc' = "done"
    /\ UNCHANGED settled
    /\ UNCHANGED <<options, sastSettings, analysisResult, sarifTypedResult,
                   numOfIssues, request, response, calls, caught>>

NextClassify == ClassifyCaught

SpecClassify == InitClassify /\ [][NextClassify]_vars

-----------------------------------------------------------------------------
(* Vocabulary of the properties, stated on the inputs and the outcome *)

Done == pc = "done"

LogReturned == analysisResult.kind = "log"

\* the findings of the first run of the log the analysis returned
FirstRunFindings(log) ==
    IF log.hasRuns /\ Len(log.runs) > 0 /\ log.runs[1].hasResults
    THEN log.runs[1].results ELSE <<>>

RECURSIVE CountFindings(_, _)
CountFindings(log, i) ==
    IF ~log.hasRuns \/ i > Len(log.runs) THEN 0
    ELSE (IF log.runs[i].hasResults THEN Len(log.runs[i].results) ELSE 0)
         + CountFindings(log, i + 1)

TotalFindings(log) == CountFindings(log, 1)

IssuesExist == LogReturned /\ Len(FirstRunFindings(analysisResult.log)) > 0

ThrewVulns == outcome.state = "rejected" /\ outcome.error.code = "VULNS"

Resolved == outcome.state = "resolved"

\* some finding of the log still carries a markdown field
CarriesMarkdown(log) ==
    /\ log.hasRuns
    /\ \E i \in 1..Len(log.runs) :
         /\ log.runs[i].hasResults
         /\ \E j \in 1..Len(log.runs[i].results) :
              log.runs[i].results[j].message.markdown # UNDEF

\* the log with the markdown field removed from every finding of the first run
WithoutMarkdown(log) ==
    [log EXCEPT !.runs[1].results =
        [j \in 1..Len(@) |-> Finding(UNDEF)]]

OrgInEffect ==
    IF options.org \in {UNDEF, NULL, ""} /\ sastSettings.org \notin {UNDEF, NULL, ""}
    THEN sastSettings.org ELSE options.org

\* what the local-mode branch produces as readable result for the returned log
LocalModeReadable ==
    LET log == analysisResult.log
        shown == IF options.noMarkdown THEN WithoutMarkdown(log) ELSE log
    IN  IF options.sarif \/ options.json
        THEN [kind |-> "json", str |-> "", log |-> shown, org |-> UNDEF]
        ELSE [kind |-> "display", str |-> TestPath, log |-> log, org |-> OrgInEffect]

\* no project-id, and a project-name that is absent, empty or whitespace-only
NoProjectIdentifier ==
    /\ options.projectId \in {UNDEF, NULL, ""}
    /\ \/ ~options.projectName.defined
       \/ \A i \in 1..Len(options.projectName.chars) :
            options.projectName.chars[i] \in WhiteSpace

UploadAnswered == response # NoResponse

UploadAccepted == UploadAnswered /\ response.statusCode \in 200..299

-----------------------------------------------------------------------------
(* C1 *)

\* C1 as stated: whenever the first run of the returned log holds N > 0
\* findings, test() ends by throwing an error with code 'VULNS' whose readable
\* result is what local-mode rendering of the result set would have produced,
\* whatever the options (upload mode included).
C1_AlwaysVulnsWithLocalRendering ==
    (Done /\ IssuesExist) =>
        /\ ThrewVulns
        /\ outcome.error.message = LocalModeReadable

\* C1 amended: with N > 0 findings in the first run, local mode always ends by
\* throwing the 'VULNS' error whose message is the local-mode output; upload
\* mode throws 'VULNS' exactly when a project identifier is present and the
\* upload was answered with a 2xx status, and the message is then the
\* uploader's display string.
C1_VulnsPerMode ==
    (Done /\ IssuesExist) =>
        /\ ~options.report =>
              /\ ThrewVulns
              /\ outcome.error.message = LocalModeReadable
        /\ options.report =>
              /\ ThrewVulns <=> (~NoProjectIdentifier /\ UploadAccepted)
              /\ ThrewVulns =>
                    outcome.error.message =
                        [kind |-> "report", str |-> response.projectUrl,
                         log |-> NoLog, org |-> UNDEF]

C1_Witness ==
    /\ Done /\ IssuesExist /\ ThrewVulns
    /\ ~options.report /\ options.noMarkdown /\ ~options.sarif /\ ~options.json
    /\ Len(FirstRunFindings(analysisResult.log)) = 2
    /\ outcome.error.message.kind = "display"

-----------------------------------------------------------------------------
(* C2 *)

\* C2 as stated: for every returned log with zero total findings test()
\* resolves successfully with a success payload and never throws 'VULNS'.
C2_ZeroFindingsAlwaysResolves ==
    (Done /\ LogReturned /\ TotalFindings(analysisResult.log) = 0) =>
        /\ Resolved
        /\ ~ThrewVulns

\* C2 amended: for every returned log with zero total findings test() never
\* throws 'VULNS'; it resolves with the success payload exactly when the issue
\* count could be read (an empty runs sequence makes that read throw, see C9)
\* and, in upload mode, a project identifier is present and the upload was
\* answered with a 2xx status; otherwise it throws that other failure.
C2_ZeroFindingsNeverVulns ==
    (Done /\ LogReturned /\ TotalFindings(analysisResult.log) = 0) =>
        /\ ~ThrewVulns
        /\ Resolved <=>
              /\ ~(analysisResult.log.hasRuns /\ analysisResult.log.runs = <<>>)
              /\ options.report => (~NoProjectIdentifier /\ UploadAccepted)
        /\ Resolved => outcome.readableResult.kind \in {"display", "json", "report"}

C2_Witness ==
    /\ Done /\ LogReturned /\ Resolved
    /\ analysisResult.log.hasRuns /\ Len(analysisResult.log.runs) = 1
    /\ analysisResult.log.runs[1].hasResults
    /\ analysisResult.log.runs[1].results = <<>>

-----------------------------------------------------------------------------
(* C3 *)

ValidationFailure ==
    /\ outcome.state = "rejected"
    /\ outcome.error.cls = "FailedToRunTestError"
    /\ outcome.error.message.str = "No project ID or name specified"

\* C3 as stated: in upload mode without a project identifier test() always
\* fails with 'No project ID or name specified' before any network call, and
\* the uploader is never invoked.
C3_FailsBeforeAnyNetworkCall ==
    (options.report /\ NoProjectIdentifier) =>
        /\ Done => ValidationFailure
        /\ calls \cap {"getCodeAnalysisAndParseResults", "uploadCodeReport",
                       "makeRequest"} = {}

\* C3 amended: in upload mode without a project identifier the uploader is
\* never invoked and test() never resolves; the failure is 'No project ID or
\* name specified' whenever the analysis returned a result set whose issue
\* count could be read, and by then the settings fetch and the analysis
\* request have already been made.
C3_NoUploadWithoutIdentifier ==
    (options.report /\ NoProjectIdentifier) =>
        /\ "uploadCodeReport" \notin calls
        /\ "makeRequest" \notin calls
        /\ ~request.sent
        /\ ~Resolved
        /\ (Done /\ LogReturned
                  /\ ~(analysisResult.log.hasRuns /\ analysisResult.log.runs = <<>>))
              => ValidationFailure
        /\ ValidationFailure =>
              {"getSastSettings", "getCodeAnalysisAndParseResults"} \subseteq calls

C3_Witness ==
    /\ Done /\ options.report /\ ValidationFailure
    /\ options.projectId = UNDEF
    /\ options.projectName = Name(<<" ">>)

-----------------------------------------------------------------------------
(* C4 *)

OutputsOf(result) ==
    IF result.state = "rejected"
    THEN {result.error.message, result.error.sarifStringifiedResults,
          result.error.jsonStringifiedResults}
    ELSE {result.readableResult, result.sarifResult}

\* C4: with no-markdown set and at least one finding in the first run, no
\* finding carries a markdown field in any output of test(): the readable
\* output (the human-readable rendering or its sarif/json replacement) and
\* the sarif/json file-output copies, in local mode and in upload mode alike.
C4_NoMarkdownAnywhere ==
    (Done /\ IssuesExist /\ options.noMarkdown) =>
        \A text \in OutputsOf(outcome) : ~CarriesMarkdown(text.log)

\* the extent of the failure of C4: in local mode the human-readable
\* rendering is made from the log as returned, markdown fields included, and
\* the serialized outputs are made from the log with the first run stripped
\* and the later runs as returned; in upload mode the uploaded result set and
\* the serialized copies are the log as returned
C4_StripsFirstRunAfterRendering ==
    (Done /\ IssuesExist /\ options.noMarkdown) =>
        /\ ~options.report =>
              /\ ThrewVulns
              /\ \A text \in OutputsOf(outcome) :
                    /\ text.kind = "json" =>
                          text.log = WithoutMarkdown(analysisResult.log)
                    /\ text.kind = "display" => text.log = analysisResult.log
        /\ (options.report /\ ThrewVulns) =>
              /\ request.results = analysisResult.log
              /\ \A text \in OutputsOf(outcome) :
                    text.kind = "json" => text.log = analysisResult.log

-----------------------------------------------------------------------------
(* C5 *)

\* the string the uploader hands back on success, wherever test() puts it
DisplayStringYielded ==
    \/ Resolved /\ outcome.readableResult.kind = "report"
    \/ ThrewVulns /\ outcome.error.message.kind = "report"

\* C5: the status code of the upload response decides the failure class, also
\* after the catch block of test() has processed the error: 401 gives the
\* authentication failure and never a validation failure; any other status
\* outside 200..299 gives a validation failure whose message is the error the
\* service reported when there is one and the generic fallback otherwise; a
\* display string is produced only for a status inside 200..299.
C5_StatusDecidesFailureClass ==
    (Done /\ UploadAnswered) =>
        /\ response.statusCode = 401 =>
              /\ outcome.state = "rejected"
              /\ outcome.error.cls = "AuthFailedError"
              /\ outcome.error.cls # "ValidationError"
        /\ (response.statusCode # 401 /\ response.statusCode \notin 200..299) =>
              /\ outcome.state = "rejected"
              /\ outcome.error.cls = "ValidationError"
              /\ outcome.error.message.kind = "lit"
              /\ outcome.error.message.str =
                    (IF response.error \in {UNDEF, NULL}
                     THEN "An error occurred, please contact Snyk support"
                     ELSE response.error)
        /\ DisplayStringYielded <=> response.statusCode \in 200..299

C5_Witness ==
    /\ Done /\ UploadAnswered
    /\ response.statusCode = 401
    /\ response.error = "service error"
    /\ outcome.error.cls = "AuthFailedError"

-----------------------------------------------------------------------------
(* C6 *)

\* C6: when the analysis yields null, test() fails with the
\* no-supported-sast-files error whatever the options, and nothing after the
\* analysis runs: no upload, no formatting, no serialized output.
C6_NullAnalysisStopsEverything ==
    analysisResult.kind = "null" =>
        /\ Done
        /\ outcome.state = "rejected"
        /\ outcome.error.cls = "NoSupportedSastFiles"
        /\ calls = {"getSastSettings", "getCodeAnalysisAndParseResults"}
        /\ ~request.sent
        /\ ~UploadAnswered
        /\ \A text \in OutputsOf(outcome) \ {outcome.error.message} :
              text.kind = "undefined"

C6_Witness ==
    /\ analysisResult.kind = "null"
    /\ options.report /\ options.projectId = "project-id"
    /\ options.sarifFileOutput # UNDEF
    /\ outcome.error.cls = "NoSupportedSastFiles"

-----------------------------------------------------------------------------
(* C7 *)

Supplied(org) == org \notin {UNDEF, NULL, ""}

\* C7: the org of the upload request is the caller's org whenever the caller
\* supplied one, whatever the settings hold; the settings' org when only the
\* settings supplied one; and the process-wide default org is used only when
\* neither supplied one (and always when the caller's org is undefined and the
\* settings supply none).
C7_OrgPrecedence ==
    request.sent =>
        /\ Supplied(options.org) => request.org = options.org
        /\ (~Supplied(options.org) /\ Supplied(sastSettings.org)) =>
              request.org = sastSettings.org
        /\ request.argOrg = NULL =>
              (~Supplied(options.org) /\ ~Supplied(sastSettings.org))
        /\ request.argOrg = NULL <=> request.org = "org-from-config"
        /\ (options.org = UNDEF /\ ~Supplied(sastSettings.org)) =>
              request.org = "org-from-config"

C7_Witness ==
    /\ request.sent
    /\ options.org = "org-from-caller"
    /\ sastSettings.org = "org-from-settings"
    /\ request.org = "org-from-caller"

-----------------------------------------------------------------------------
(* C8 *)

Present(text) == text.kind # "undefined"

\* C8: the file outputs are additive and independent of the mode: the 'VULNS'
\* error carries sarifStringifiedResults exactly when sarif-file-output was
\* requested and jsonStringifiedResults exactly when json-file-output was,
\* each being the serialized result set as test() holds it; the success
\* payload always carries readableResult, and sarifResult exactly when
\* sarif-file-output was requested.
C8_FileOutputsAdditive ==
    /\ ThrewVulns =>
          /\ Present(outcome.error.sarifStringifiedResults)
                <=> options.sarifFileOutput = "out.sarif"
          /\ Present(outcome.error.jsonStringifiedResults)
                <=> options.jsonFileOutput = "out.json"
          /\ \A text \in {outcome.error.sarifStringifiedResults,
                          outcome.error.jsonStringifiedResults} :
                Present(text) => (text.kind = "json" /\ text.log = sarifTypedResult)
    /\ Resolved =>
          /\ Present(outcome.readableResult)
          /\ Present(outcome.sarifResult) <=> options.sarifFileOutput = "out.sarif"
          /\ Present(outcome.sarifResult) =>
                (outcome.sarifResult.kind = "json"
                 /\ outcome.sarifResult.log = sarifTypedResult)

C8_Witness ==
    /\ Done /\ ThrewVulns /\ options.report
    /\ options.sarifFileOutput = UNDEF /\ options.jsonFileOutput = "out.json"
    /\ Present(outcome.error.jsonStringifiedResults)
    /\ ~Present(outcome.error.sarifStringifiedResults)

-----------------------------------------------------------------------------
(* C9 *)

\* C9: the issue count defaults to zero when any level is absent: for a
\* returned log without runs field, with an empty runs sequence, or whose
\* first run has no results field, the count is zero and test() goes on as a
\* zero-issue run, the absence raising no error.
C9_AbsentLevelsCountZero ==
    (Done /\ LogReturned
          /\ (\/ ~analysisResult.log.hasRuns
              \/ analysisResult.log.runs = <<>>
              \/ ~analysisResult.log.runs[1].hasResults)) =>
        /\ numOfIssues = 0
        /\ caught.cls # "TypeError"
        /\ ~ThrewVulns
        /\ ~options.report => Resolved

\* the extent of the failure of C9: the default applies when the runs field
\* or the results field is absent, and only an empty runs sequence throws
C9_DefaultsExceptEmptyRuns ==
    (Done /\ LogReturned) =>
        /\ (\/ ~analysisResult.log.hasRuns
            \/ (analysisResult.log.runs # <<>>
                /\ ~analysisResult.log.runs[1].hasResults)) =>
              (numOfIssues = 0 /\ caught.cls # "TypeError" /\ ~ThrewVulns)
        /\ caught.cls = "TypeError" <=>
              (analysisResult.log.hasRuns /\ analysisResult.log.runs = <<>>)

-----------------------------------------------------------------------------
(* C10 *)

HasClientShape(v) ==
    /\ v.type \in {"object", "Error"}
    /\ v.statusCode # UNDEF /\ v.statusText # UNDEF /\ v.apiName # UNDEF

\* the error the four ordered tests of the classifier are said to produce
ClassifiedAs(v) ==
    IF HasClientShape(v)
    THEN [NoValue EXCEPT
            !.type = "Error", !.cls = "FailedToRunTestError",
            !.code = v.statusCode,
            !.message =
                [kind |-> "lit",
                 str |-> IF v.statusCode \in {"401", "403"}
                         THEN "Unauthorized: Failed to run 'code test'"
                         ELSE "Failed to run 'code test'",
                 log |-> NoLog, org |-> UNDEF]]
    ELSE IF v.type = "Error"
    THEN v
    ELSE IF v.type = "object"
            /\ (v.statusCode \in {"401", "403"} \/ v.code \in {"401", "403"})
    THEN [NoValue EXCEPT
            !.type = "Error", !.cls = "FailedToRunTestError",
            !.code = v.code, !.message = v.message]
    ELSE [NoValue EXCEPT
            !.type = "Error", !.cls = "Error",
            !.message =
                [kind |-> "lit",
                 str |-> CASE v.type = "string" -> v.str
                           [] v.type = "null" -> "null"
                           [] v.type = "undefined" -> "undefined"
                           [] OTHER -> "[object Object]",
                 log |-> NoLog, org |-> UNDEF]]

\* C10: for any caught value exactly one error is rethrown, chosen by the
\* first matching test: client shape (prefix 'Unauthorized: ' exactly when
\* the status code is 401 or 403), else Error instance unchanged, else
\* unauthorized shape, else a bare error built from the value; no value makes
\* the classifier itself fail.
C10_ClassifierTotal ==
    (Done /\ caught.type # "none") =>
        /\ outcome.state = "rejected"
        /\ outcome.error = ClassifiedAs(caught)

\* the extent of the failure of C10: the four ordered tests are as stated for
\* every caught value other than null and undefined, the prefix of the first
\* test following the value's code field as well as its status code
C10_ExceptNullAndCodeField ==
    (Done /\ caught.type \notin {"none", "null", "undefined"}) =>
        /\ outcome.state = "rejected"
        /\ ~(HasClientShape(caught) /\ caught.code \in {"401", "403"}
                /\ caught.statusCode \notin {"401", "403"})
              => outcome.error = ClassifiedAs(caught)
        /\ HasClientShape(caught) =>
              (outcome.error.message.str = "Unauthorized: Failed to run 'code test'"
                 <=> (caught.statusCode \in {"401", "403"}
                      \/ caught.code \in {"401", "403"}))

====
